---------------------------- MODULE Spec2Model ----------------------------
(***************************************************************************)
(* A model of helpers.py: the text normalizers format_string and make_int, *)
(* the extractor get_data, the location filter filter_cities and the       *)
(* writer write_to_file, together with the module load that binds the      *)
(* default argument of filter_cities.                                      *)
(*                                                                         *)
(* Python str values are TLA+ strings; a character is a string of length   *)
(* one, obtained with SubSeq and put back with \o.                         *)
(***************************************************************************)
EXTENDS Integers, Sequences, FiniteSets, TLC

VARIABLES
    \* format_string applied to a string (SpecFormat)
    fs_orig, fs_line, fs_prev, fs_applied,
    \* make_int applied to a price text (SpecPrice)
    mi_num, mi_result,
    \* filter_cities applied to an explicit list (SpecFilter)
    fc_all_listings, fc_result,
    \* the process that loads helpers.py and calls write_to_file (Spec);
    \* now is the latest time read from the local clock, in seconds
    remote, pc, error, response, default_listings, requests, calls,
    now, dirs, files, stdout, returned, last_filtered

fsVars == <<fs_orig, fs_line, fs_prev, fs_applied>>
miVars == <<mi_num, mi_result>>
fcVars == <<fc_all_listings, fc_result>>
runVars == <<remote, pc, error, response, default_listings, requests, calls,
             now, dirs, files, stdout, returned, last_filtered>>
vars == <<fsVars, miVars, fcVars, runVars>>

-----------------------------------------------------------------------------
(* Bounds of the model *)

MaxLen == 3
MaxApply == 2

-----------------------------------------------------------------------------
(* Characters and strings *)

UpperLetters == "ABCDEFGHIJKLMNOPQRSTUVWXYZ"
LowerLetters == "abcdefghijklmnopqrstuvwxyz"
Digits == "0123456789"

Char(s, i) == SubSeq(s, i, i)

CharsOf(s) == {Char(s, i) : i \in 1..Len(s)}

UpperSet == CharsOf(UpperLetters)
LowerSet == CharsOf(LowerLetters)
DigitSet == CharsOf(Digits)
\* str.strip() and the regex class \s: whitespace characters
SpaceSet == {" ", "\t", "\n"}

IsUpper(c) == c \in UpperSet
IsLower(c) == c \in LowerSet
IsDigit(c) == c \in DigitSet
IsSpace(c) == c \in SpaceSet

RECURSIVE StringsUpTo(_, _)
StringsUpTo(alphabet, n) ==
    IF n = 0 THEN {""}
    ELSE {""} \cup {c \o s : c \in alphabet, s \in StringsUpTo(alphabet, n - 1)}

\* str.lower() on one character
LowerChar(c) ==
    IF IsUpper(c)
    THEN Char(LowerLetters, CHOOSE i \in 1..Len(UpperLetters) : Char(UpperLetters, i) = c)
    ELSE c

\* line 30: s.lower()
RECURSIVE Lower(_)
Lower(s) == IF s = "" THEN "" ELSE LowerChar(Char(s, 1)) \o Lower(SubSeq(s, 2, Len(s)))

\* str.strip(): drop leading and trailing whitespace
RECURSIVE LStrip(_)
LStrip(s) == IF s # "" /\ IsSpace(Char(s, 1)) THEN LStrip(SubSeq(s, 2, Len(s))) ELSE s

RECURSIVE RStrip(_)
RStrip(s) ==
    IF s # "" /\ IsSpace(Char(s, Len(s))) THEN RStrip(SubSeq(s, 1, Len(s) - 1)) ELSE s

Strip(s) == RStrip(LStrip(s))

\* "".join(x) for a str x: the characters of x concatenated
RECURSIVE JoinEmpty(_)
JoinEmpty(s) == IF s = "" THEN "" ELSE Char(s, 1) \o JoinEmpty(SubSeq(s, 2, Len(s)))

\* line 32: the characters the pattern [^a-zA-Z0-9\s] does not match
KeptByPattern(c) == IsLower(c) \/ IsUpper(c) \/ IsDigit(c) \/ IsSpace(c)

\* line 33: re.sub(pattern, '', line)
RECURSIVE ReSubPattern(_)
ReSubPattern(s) ==
    IF s = "" THEN ""
    ELSE (IF KeptByPattern(Char(s, 1)) THEN Char(s, 1) ELSE "")
         \o ReSubPattern(SubSeq(s, 2, Len(s)))

\* A normalizer that forgets the case folding of line 30
format_string_nolower(s) == ReSubPattern(JoinEmpty(Strip(s)))

format_string(s) == ReSubPattern(JoinEmpty(Strip(Lower(s))))

-----------------------------------------------------------------------------
(* SpecFormat: format_string applied repeatedly to one string *)

FormatAlphabet == {"A", "b", "7", " ", "!"}

IdleFormat == fs_orig = "" /\ fs_line = "" /\ fs_prev = "" /\ fs_applied = 0

InitFormat ==
    /\ fs_orig \in StringsUpTo(FormatAlphabet, MaxLen)
    /\ fs_line = fs_orig
    /\ fs_prev = fs_orig
    /\ fs_applied = 0

ApplyFormat ==
    /\ fs_applied < MaxApply
    /\ fs_prev' = fs_line
    /\ fs_line' = format_string(fs_line)
    /\ fs_applied' = fs_applied + 1
    /\ UNCHANGED fs_orig


-----------------------------------------------------------------------------
(* Python values held in Listing.price: a str or an int *)

PyStr(s) == [type |-> "str", val |-> s]
PyInt(n) == [type |-> "int", val |-> n]

DigitVal(c) == (CHOOSE i \in 1..Len(Digits) : Char(Digits, i) = c) - 1

RECURSIVE NatToStr(_)
NatToStr(n) ==
    IF n < 10 THEN Char(Digits, n + 1)
    ELSE NatToStr(n \div 10) \o Char(Digits, (n % 10) + 1)

\* str(n) for an int n
IntToStr(n) == IF n < 0 THEN "-" \o NatToStr(-n) ELSE NatToStr(n)

\* str(v), as an f-string renders a value
StrOf(v) == IF v.type = "str" THEN v.val ELSE IntToStr(v.val)

\* The text int() reads once surrounding whitespace and a sign are taken off
IntBody(s) ==
    LET t == Strip(s)
    IN  IF t # "" /\ Char(t, 1) \in {"+", "-"} THEN SubSeq(t, 2, Len(t)) ELSE t

\* int(s) accepts: optional whitespace around, an optional sign, then decimal
\* digits in which single underscores may separate digits
IntAccepts(s) ==
    LET b == IntBody(s)
    IN  /\ b # ""
        /\ \A i \in 1..Len(b) :
              \/ IsDigit(Char(b, i))
              \/ /\ Char(b, i) = "_"
                 /\ 1 < i /\ i < Len(b)
                 /\ IsDigit(Char(b, i - 1))
                 /\ IsDigit(Char(b, i + 1))

RECURSIVE DigitsValue(_, _)
DigitsValue(b, acc) ==
    IF b = "" THEN acc
    ELSE IF Char(b, 1) = "_" THEN DigitsValue(SubSeq(b, 2, Len(b)), acc)
    ELSE DigitsValue(SubSeq(b, 2, Len(b)), 10 * acc + DigitVal(Char(b, 1)))

\* The value of int(s) for a text int() accepts
IntValue(s) ==
    LET t == Strip(s)
        v == DigitsValue(IntBody(s), 0)
    IN  IF t # "" /\ Char(t, 1) = "-" THEN -v ELSE v

\* str.replace(old, "") for a one-character old
RECURSIVE Remove(_, _)
Remove(s, old) ==
    IF s = "" THEN ""
    ELSE (IF Char(s, 1) = old THEN "" ELSE Char(s, 1)) \o Remove(SubSeq(s, 2, Len(s)), old)

\* lines 45-47: the chars $ and , are removed in turn
CleanPrice(num) == Remove(Remove(num, "$"), ",")

Raise(exc) == [kind |-> "raise", exc |-> exc]
Return(v) == [kind |-> "return", val |-> v]

\* A price normalizer that never calls int() on the cleaned text
make_int_unchecked(num) == Return(PyStr(CleanPrice(num)))

\* lines 45-49: int(num) raises ValueError or its value n is dropped, and the
\* cleaned text num is what is returned
make_int(num) ==
    LET cleaned == CleanPrice(num)
    IN  IF ~IntAccepts(cleaned) THEN Raise("ValueError")
        ELSE Return(PyStr(cleaned))

-----------------------------------------------------------------------------
(* SpecPrice: make_int applied to one price text *)

PriceAlphabet == {"$", ",", "1", "2", " ", ".", "a", "-", "_"}

NotCalled == [kind |-> "none"]

IdlePrice == mi_num = "" /\ mi_result = NotCalled

InitPrice ==
    /\ mi_num \in StringsUpTo(PriceAlphabet, MaxLen)
    /\ mi_result = NotCalled

CallMakeInt ==
    /\ mi_result = NotCalled
    /\ mi_result' = make_int(mi_num)
    /\ UNCHANGED mi_num

-----------------------------------------------------------------------------
(* Listing and filter_cities *)

MaxListings == 3

\* lines 11-19: the dataclass Listing
Listing(title, price, location, link) ==
    [title |-> title, price |-> price, location |-> location, link |-> link]

\* line 79: the list of cities to filter out
to_filter ==
    <<"surrey", "delta", "port", "westminster", "burnaby", "mission",
      "cloverdale", "abbotsford", "langley", "coquitlam">>

\* The str operator "f in s": f occurs in s as a substring
In(f, s) == \E i \in 1..(Len(s) - Len(f) + 1) : SubSeq(s, i, i + Len(f) - 1) = f

\* any(f in field for f in to_filter)
AnyCityIn(field) == \E k \in 1..Len(to_filter) : In(to_filter[k], field)

\* line 82
filtered_locations(all_listings) ==
    SelectSeq(all_listings, LAMBDA l : ~AnyCityIn(l.location))

\* line 83
filtered_links(locs) == SelectSeq(locs, LAMBDA l : ~AnyCityIn(l.link))

\* A third pass that tests the location again and never the title
filtered_titles_by_location(links) == SelectSeq(links, LAMBDA l : ~AnyCityIn(l.location))

\* line 84
filtered_titles(links) == SelectSeq(links, LAMBDA l : ~AnyCityIn(l.title))

RECURSIVE Reverse(_)
Reverse(s) == IF s = <<>> THEN <<>> ELSE Append(Reverse(Tail(s)), Head(s))

\* A filter that puts each kept listing in front of the ones kept before it
filter_cities_reversed(all_listings) ==
    Reverse(filtered_titles(filtered_links(filtered_locations(all_listings))))

\* lines 82-85, for an explicit argument
filter_cities(all_listings) ==
    filtered_titles(filtered_links(filtered_locations(all_listings)))

-----------------------------------------------------------------------------
(* SpecFilter: filter_cities applied to one list of Listings *)

FilterListings ==
    { Listing("cozy suite", PyStr("1750"), "vancouver", "https://example.org/van"),
      Listing("bright room", PyInt(900), "surrey bc", "https://example.org/1"),
      Listing("2 br", PyStr("1200"), "east van", "https://example.org/burnaby/2"),
      Listing("langley loft", PyInt(1500), "", "https://example.org/3"),
      Listing("den", PyStr("800"), "Surrey", "https://example.org/Delta"),
      Listing("airport view", PyInt(1000), "north delta", "/coquitlam") }

RECURSIVE SeqsUpTo(_, _)
SeqsUpTo(S, n) ==
    IF n = 0 THEN {<<>>}
    ELSE {<<>>} \cup {<<x>> \o s : x \in S, s \in SeqsUpTo(S, n - 1)}

IdleFilter == fc_all_listings = <<>> /\ fc_result = NotCalled

InitFilter ==
    /\ fc_all_listings \in SeqsUpTo(FilterListings, MaxListings)
    /\ fc_result = NotCalled

CallFilterCities ==
    /\ fc_result = NotCalled
    /\ fc_result' = Return(filter_cities(fc_all_listings))
    /\ UNCHANGED fc_all_listings

-----------------------------------------------------------------------------
(* get_data: the page, its elements and the listings built from them *)

MaxElems == 2

\* The text of the div elements of class title, price and location and the
\* href of the a elements, each in document order (lines 56-59)
TitleTexts == {"Den!"}
PriceTexts == {"$1,2", " 7", "1.5"}
LocationTexts == {"UBC ", "Delta,"}
LinkTexts == {"/a"}

Pages ==
    [titles : SeqsUpTo(TitleTexts, MaxElems),
     prices : SeqsUpTo(PriceTexts, MaxElems),
     locations : SeqsUpTo(LocationTexts, MaxElems),
     links : SeqsUpTo(LinkTexts, MaxElems)]

EmptyPage == [titles |-> <<>>, prices |-> <<>>, locations |-> <<>>, links |-> <<>>]

Min(S) == CHOOSE x \in S : \A y \in S : x <= y

\* lines 56-58: the comprehensions over the found elements
FormatAll(texts) == [i \in 1..Len(texts) |-> format_string(texts[i])]
MakeIntAll(texts) == [i \in 1..Len(texts) |-> make_int(texts[i])]

\* An extractor that pairs the four lists up to the shortest one
get_data_zip(page) ==
    LET title == FormatAll(page.titles)
        made == MakeIntAll(page.prices)
        locations == FormatAll(page.locations)
        link == page.links
        n == Min({Len(title), Len(made), Len(locations), Len(link)})
    IN  IF \E i \in 1..Len(made) : made[i].kind = "raise"
        THEN Raise("ValueError")
        ELSE Return([i \in 1..n |->
                        Listing(title[i], made[i].val, locations[i], link[i])])

\* lines 54-63, on the text of the response: make_int raises on the first
\* price int() rejects; the loop runs over range(len(title)) and indexing a
\* shorter list raises IndexError
get_data(page) ==
    LET title == FormatAll(page.titles)
        made == MakeIntAll(page.prices)
        locations == FormatAll(page.locations)
        link == page.links
    IN  IF \E i \in 1..Len(made) : made[i].kind = "raise"
        THEN Raise("ValueError")
        ELSE IF Len(title) > Min({Len(made), Len(locations), Len(link)})
        THEN Raise("IndexError")
        ELSE Return([i \in 1..Len(title) |->
                        Listing(title[i], made[i].val, locations[i], link[i])])

-----------------------------------------------------------------------------
(* write_to_file: the directory, the file name, the file text, the summary *)

MaxCalls == 2
MaxTime == 1

OutputDirs == {"output", "data/out"}

Pad2(n) == IF n < 10 THEN "0" \o NatToStr(n) ELSE NatToStr(n)

\* line 103: datetime.now().strftime("%H-%M-%S_%Y-%m-%d"), the clock counting
\* the seconds of one day
Strftime(t) ==
    Pad2(t \div 3600) \o "-" \o Pad2((t \div 60) % 60) \o "-" \o Pad2(t % 60)
        \o "_2024-01-01"

\* line 104
FileName(t) == Strftime(t) \o "_available_listings.txt"

\* line 106: os.path.join(output_dir, file_name) for a relative file name
PathJoin(a, b) ==
    IF a = "" THEN b
    ELSE IF Char(a, Len(a)) = "/" THEN a \o b
    ELSE a \o "/" \o b

\* line 101: os.makedirs creates the directory and its missing ancestors
MakeDirs(d) ==
    {d} \cup {SubSeq(d, 1, i - 1) : i \in {j \in 2..Len(d) : Char(d, j) = "/"}}

\* lines 111-115: what one file.write call writes
Block(listing) ==
    "Title: " \o listing.title \o "\n"
        \o "Location: " \o listing.location \o "\n"
        \o "Price: $" \o StrOf(listing.price) \o "\n"
        \o "Link: " \o listing.link \o "\n"
        \o "\n"

\* A writer loop that skips the first listing
RECURSIVE FileTextSkipFirst(_)
FileTextSkipFirst(filtered_data) ==
    IF Len(filtered_data) <= 1 THEN ""
    ELSE FileTextSkipFirst(SubSeq(filtered_data, 1, Len(filtered_data) - 1))
            \o Block(filtered_data[Len(filtered_data)])

\* lines 109-115: the text of the file once the loop has run
RECURSIVE FileText(_)
FileText(filtered_data) ==
    IF filtered_data = <<>> THEN ""
    ELSE Block(Head(filtered_data)) \o FileText(Tail(filtered_data))

\* line 117
Summary(filtered_data, file_name) ==
    NatToStr(Len(filtered_data)) \o " entries written to " \o file_name

-----------------------------------------------------------------------------
(* Spec: one process loads helpers.py, then calls write_to_file and         *)
(* filter_cities() while the clock runs and the listing site changes       *)

StatusCodes == {200, 404}

NoResponse == [status |-> 0, text |-> EmptyPage]

\* The page the site replaces its result page by: one new listing
UpdatedPages ==
    {[titles |-> <<"New 1">>, prices |-> <<"$9">>, locations |-> <<"Kits">>,
      links |-> <<"/n">>]}

IdleRun ==
    /\ remote = EmptyPage /\ pc = "idle" /\ error = "none"
    /\ response = NoResponse /\ default_listings = <<>>
    /\ requests = 0 /\ calls = 0 /\ now = 0
    /\ dirs = {} /\ files = {} /\ stdout = <<>>
    /\ returned = NotCalled /\ last_filtered = <<>>

InitRun ==
    /\ remote \in Pages
    /\ pc = "load"
    /\ error = "none"
    /\ response = NoResponse
    /\ default_listings = <<>>
    /\ requests = 0
    /\ calls = 0
    /\ now = 0
    /\ dirs = {}
    /\ files = {}
    /\ stdout = <<>>
    /\ returned = NotCalled
    /\ last_filtered = <<>>

\* line 53, reached from line 67 while helpers.py is loaded: requests.get
\* raises when no response arrives
GetFails ==
    /\ pc = "load"
    /\ requests' = requests + 1
    /\ pc' = "aborted"
    /\ error' = "ConnectionError"
    /\ UNCHANGED <<remote, response, default_listings, calls, now, dirs, files,
                   stdout, returned, last_filtered>>

\* line 53: requests.get returns the response whatever its status; no line
\* reads r.status_code or calls r.raise_for_status()
GetResponds ==
    /\ pc = "load"
    /\ \E st \in StatusCodes : response' = [status |-> st, text |-> remote]
    /\ requests' = requests + 1
    /\ pc' = "fetched"
    /\ UNCHANGED <<remote, error, default_listings, calls, now, dirs, files,
                   stdout, returned, last_filtered>>

\* lines 54-63 raise: the load of helpers.py ends with the exception
ExtractRaises ==
    /\ pc = "fetched"
    /\ get_data(response.text).kind = "raise"
    /\ error' = get_data(response.text).exc
    /\ pc' = "aborted"
    /\ UNCHANGED <<remote, response, default_listings, requests, calls, now,
                   dirs, files, stdout, returned, last_filtered>>

\* lines 54-63 return and line 67 binds the list as the default of
\* all_listings, once, when the def statement runs
BindDefault ==
    /\ pc = "fetched"
    /\ get_data(response.text).kind = "return"
    /\ default_listings' = get_data(response.text).val
    /\ pc' = "ready"
    /\ UNCHANGED <<remote, error, response, requests, calls, now, dirs, files,
                   stdout, returned, last_filtered>>

\* lines 98-118: write_to_file(output_dir); line 98 calls filter_cities()
\* with the default bound at load; line 103 reads the clock, which never
\* runs backwards
WriteToFile ==
    /\ pc = "ready"
    /\ calls < MaxCalls
    /\ \E output_dir \in OutputDirs : \E t \in now..MaxTime :
          LET filtered_data == filter_cities(default_listings)
              file_name == FileName(t)
              f == PathJoin(output_dir, file_name)
          IN  /\ dirs' = IF output_dir \in dirs THEN dirs
                         ELSE dirs \cup MakeDirs(output_dir)
              /\ now' = t
              /\ files' = {x \in files : x.path # f}
                            \cup {[path |-> f, text |-> FileText(filtered_data)]}
              /\ stdout' = Append(stdout, Summary(filtered_data, file_name))
              /\ returned' = Return(f)
              /\ last_filtered' = filtered_data
    /\ calls' = calls + 1
    /\ UNCHANGED <<remote, pc, error, response, default_listings, requests>>

\* filter_cities() called without an argument
FilterCitiesDefault ==
    /\ pc = "ready"
    /\ calls < MaxCalls
    /\ last_filtered' = filter_cities(default_listings)
    /\ calls' = calls + 1
    /\ UNCHANGED <<remote, pc, error, response, default_listings, requests, now,
                   dirs, files, stdout, returned>>

\* The site serves another page at the URL
RemoteChange ==
    /\ pc = "ready"
    /\ calls < MaxCalls
    /\ remote' \in UpdatedPages \ {remote}
    /\ UNCHANGED <<pc, error, response, default_listings, requests, calls, now,
                   dirs, files, stdout, returned, last_filtered>>

-----------------------------------------------------------------------------
(* The specifications *)

Init == IdleFormat /\ IdlePrice /\ IdleFilter /\ InitRun

Next ==
    \/ (GetFails /\ UNCHANGED <<fsVars, miVars, fcVars>>)
    \/ (GetResponds /\ UNCHANGED <<fsVars, miVars, fcVars>>)
    \/ (ExtractRaises /\ UNCHANGED <<fsVars, miVars, fcVars>>)
    \/ (BindDefault /\ UNCHANGED <<fsVars, miVars, fcVars>>)
    \/ (WriteToFile /\ UNCHANGED <<fsVars, miVars, fcVars>>)
    \/ (FilterCitiesDefault /\ UNCHANGED <<fsVars, miVars, fcVars>>)
    \/ (RemoteChange /\ UNCHANGED <<fsVars, miVars, fcVars>>)

Spec == Init /\ [][Next]_vars

InitFormatSpec == InitFormat /\ IdlePrice /\ IdleFilter /\ IdleRun
NextFormat == ApplyFormat /\ UNCHANGED <<miVars, fcVars, runVars>>
SpecFormat == InitFormatSpec /\ [][NextFormat]_vars

InitPriceSpec == IdleFormat /\ InitPrice /\ IdleFilter /\ IdleRun
NextPrice == CallMakeInt /\ UNCHANGED <<fsVars, fcVars, runVars>>
SpecPrice == InitPriceSpec /\ [][NextPrice]_vars

InitFilterSpec == IdleFormat /\ IdlePrice /\ InitFilter /\ IdleRun
NextFilter == CallFilterCities /\ UNCHANGED <<fsVars, miVars, runVars>>
SpecFilter == InitFilterSpec /\ [][NextFilter]_vars

-----------------------------------------------------------------------------
(* Claims about format_string (SpecFormat) *)

\* C3: applying format_string to its own result changes nothing
C3_FormatIdempotent == fs_applied = 2 => fs_line = fs_prev

-----------------------------------------------------------------------------
(* Claims about make_int (SpecPrice) *)

\* C5: for a price text that is a valid integer once $ and , are removed,
\* make_int returns that integer, not the cleaned text
C5_MakeIntReturnsInteger ==
    (mi_result # NotCalled /\ IntAccepts(CleanPrice(mi_num))) =>
        /\ mi_result.kind = "return"
        /\ mi_result.val.type = "int"
        /\ mi_result.val.val = IntValue(CleanPrice(mi_num))

-----------------------------------------------------------------------------
(* Claims about filter_cities (SpecFilter) *)

ExclusionSubstrings ==
    {"surrey", "delta", "port", "westminster", "burnaby", "mission",
     "cloverdale", "abbotsford", "langley", "coquitlam"}

HasSubstring(s, sub) == \E i \in 0..Len(s) : \E j \in i..Len(s) : SubSeq(s, i + 1, j) = sub

Matches(l) ==
    \E field \in {l.location, l.link, l.title} :
        \E c \in ExclusionSubstrings : HasSubstring(field, c)

RECURSIVE IsSubsequence(_, _)
IsSubsequence(a, b) ==
    IF a = <<>> THEN TRUE
    ELSE IF b = <<>> THEN FALSE
    ELSE IF Head(a) = Head(b) THEN IsSubsequence(Tail(a), Tail(b))
    ELSE IsSubsequence(a, Tail(b))

\* C1: filter_cities returns exactly the listings none of whose location,
\* link and title contains an exclusion substring, case-sensitively
C1_KeepsExactlyUnmatched ==
    fc_result # NotCalled =>
        fc_result.val = SelectSeq(fc_all_listings, LAMBDA l : ~Matches(l))

\* C1 witness: a title match and a link match are dropped, a location that
\* differs in case only is kept
C1_Witness ==
    /\ fc_result # NotCalled
    /\ Len(fc_all_listings) = 3
    /\ fc_all_listings[1].title = "langley loft"
    /\ fc_all_listings[2].location = "Surrey"
    /\ fc_all_listings[3].link = "https://example.org/burnaby/2"
    /\ fc_result.val = <<fc_all_listings[2]>>

\* C2: the result of filter_cities is a subsequence of its argument
C2_ResultIsSubsequence ==
    fc_result # NotCalled => IsSubsequence(fc_result.val, fc_all_listings)

\* C2 witness: the middle one of three listings is dropped
C2_Witness ==
    /\ fc_result # NotCalled
    /\ Len(fc_all_listings) = 3
    /\ fc_all_listings[1] # fc_all_listings[3]
    /\ fc_result.val = <<fc_all_listings[1], fc_all_listings[3]>>

-----------------------------------------------------------------------------
(* Claims about the load of helpers.py and write_to_file (Spec) *)

\* get_data has run to its end on the text of a response
Extracted == pc \in {"ready", "aborted"} /\ response # NoResponse

PageLens(p) == {Len(p.titles), Len(p.prices), Len(p.locations), Len(p.links)}

ShorterThanTitles(p) ==
    \/ Len(p.prices) < Len(p.titles)
    \/ Len(p.locations) < Len(p.titles)
    \/ Len(p.links) < Len(p.titles)

RejectedPrice(p) == \E i \in 1..Len(p.prices) : ~IntAccepts(CleanPrice(p.prices[i]))

C7_FailedFetchIsFatal ==
    (error = "ConnectionError" \/ (response # NoResponse /\ response.status # 200)) =>
        /\ pc # "ready"
        /\ default_listings = <<>>
        /\ files = {}
        /\ stdout = <<>>

\* C8: every call of write_to_file or of filter_cities() makes one network
\* request and computes its listings from the page the site serves then
C8_EachCallFetches ==
    [][calls' = calls + 1 =>
          /\ requests' = requests + 1
          /\ get_data(remote).kind = "return" =>
                last_filtered' = filter_cities(get_data(remote).val)]_vars

\* The lines of a text, each ended by a line feed: the lines from position
\* start on, the scan being at position i
RECURSIVE SplitFrom(_, _, _)
SplitFrom(text, start, i) ==
    IF i > Len(text)
    THEN (IF start > Len(text) THEN <<>> ELSE <<SubSeq(text, start, Len(text))>>)
    ELSE IF Char(text, i) = "\n"
    THEN <<SubSeq(text, start, i - 1)>> \o SplitFrom(text, i + 1, i + 1)
    ELSE SplitFrom(text, start, i + 1)

SplitLines(text) == SplitFrom(text, 1, 1)

AbortedInExtraction ==
    /\ pc = "aborted"
    /\ error = "ValueError"
    /\ default_listings = <<>>
    /\ last_filtered = <<>>
    /\ calls = 0
    /\ dirs = {}
    /\ files = {}
    /\ stdout = <<>>

\* A cleaned price text that is empty or holds a character that is no digit
NotAllDigits(c) == c = "" \/ \E i \in 1..Len(c) : ~IsDigit(Char(c, i))

\* C10 as stated: a price whose cleaned text is empty or holds a non-digit
\* character aborts the run during extraction
C10_NonDigitPriceAborts ==
    (/\ Extracted
     /\ \E i \in 1..Len(response.text.prices) :
            NotAllDigits(CleanPrice(response.text.prices[i])))
        => AbortedInExtraction

\* C10 as amended: a price whose cleaned text int() rejects aborts the run
\* during extraction, before anything is filtered, created or written
C10_RejectedPriceAborts ==
    (Extracted /\ RejectedPrice(response.text)) => AbortedInExtraction

\* C10 witness: a valid and a rejected price on a page of two listings
C10_Witness ==
    /\ pc = "aborted"
    /\ error = "ValueError"
    /\ Len(response.text.titles) = 2
    /\ response.text.prices = <<"$1,2", "1.5">>
    /\ Len(response.text.locations) = 2
    /\ Len(response.text.links) = 2

=============================================================================
